---- MODULE Spec2Model ----
(***************************************************************************)
(* Wide & Deep recommender (recommenders/models/wide_deep/wide_deep_utils)  *)
(* as a state machine: the WideAndDeepModel module (hyperparameters,        *)
(* parameter tensors, training flag), its forward function, and the         *)
(* WideAndDeep driver (fit, train_loop, test_loop).                         *)
(*                                                                         *)
(* Tensors are sequences of rows, rows are sequences of integers.  Scalars  *)
(* are small integers; a sigmoid output is a score code (see Sigmoid).      *)
(* A call that raises yields [err |-> <exception>, val |-> <<>>].           *)
(*                                                                         *)
(* WideAndDeep.__init__ leaves num_users, num_items and the DataLoader as   *)
(* placeholders and the class never assigns self.optimizer; the driver is   *)
(* modelled with them supplied: a loader of in-range batches, an optimizer  *)
(* whose step may rewrite every parameter tensor.                           *)
(*                                                                         *)
(* Three specifications: Spec (the driver, with forward called by its       *)
(* loops and by the caller), SpecDirect (forward called directly on a       *)
(* model, over valid and invalid arguments), SpecWide (the wide branch      *)
(* alone, over every vocabulary size and bucket count up to the bounds).    *)
(***************************************************************************)
EXTENDS Integers, Sequences, FiniteSets, TLC

\* ------------------------------------------------------------- bounds
\* largest batch a direct forward call is given
MaxBatch == 2
\* number of distinct parameter assignments (initialisations / optimizer outcomes)
NumSeeds == 2
\* largest number of batches the data loader yields
MaxBatches == 2
\* largest vocabulary sizes and bucket count of the exhaustive wide-branch check
MaxUsers == 10
MaxItems == 5
MaxCross == 7

\* ------------------------------------------------------------- helpers
Ok(v) == [err |-> "none", val |-> v]

Raise(e) == [err |-> e, val |-> <<>>]

IsOk(r) == r.err = "none"

RECURSIVE SumSeq(_)
SumSeq(s) == IF s = <<>> THEN 0 ELSE Head(s) + SumSeq(Tail(s))

\* dot product of two rows of equal length
Dot(a, b) == SumSeq([j \in 1..Len(a) |-> a[j] * b[j]])

\* torch.cat(..., dim=1) of two tensors with the same number of rows
Cat2(a, b) == [r \in 1..Len(a) |-> a[r] \o b[r]]

\* a parameter entry: the value the initialiser / optimizer gave entry (a, b)
\* of a tensor under assignment `seed`; entries lie in {-1, 0, 1}
Entry(seed, a, b) == ((seed + a + 2 * b) % 3) - 1

Matrix(seed, rows, cols) == [r \in 1..rows |-> [c \in 1..cols |-> Entry(seed, r, c)]]

\* ------------------------------------------------------------- hyperparameters
\* WideAndDeepHyperParams: dnn_dropout is a percentage; the mapping
\* dnn_additional_embeddings_sizes is a sequence of [name, num, dim] in the
\* dict's insertion order.
Genre == [name |-> "genre", num |-> 2, dim |-> 1]

Year == [name |-> "year", num |-> 3, dim |-> 2]

HiddenChoices == {<<>>, <<2>>, <<2, 1>>}

DropoutChoices == {0, 50}

AdditionalChoices == {<<>>, <<Genre, Year>>}

ContChoices == {0, 1}

\* (num_users, num_items, crossed_feat_dim)
ShapeChoices == {<<2, 3, 0>>, <<2, 3, 2>>, <<10, 5, 7>>}

HParamChoices ==
    {[user_dim |-> 2, item_dim |-> 1, crossed_feat_dim |-> s[3],
      dnn_hidden_units |-> h, dnn_dropout |-> p,
      dnn_additional_embeddings_sizes |-> a, dnn_cont_features |-> c] :
        s \in ShapeChoices, h \in HiddenChoices, p \in DropoutChoices,
        a \in AdditionalChoices, c \in ContChoices}

\* ------------------------------------------------------------- construction
\* total_emb_dim of WideAndDeepModel.__init__
RECURSIVE AdditionalDim(_)
AdditionalDim(sizes) ==
    IF sizes = <<>> THEN 0 ELSE Head(sizes).dim + AdditionalDim(Tail(sizes))

TotalEmbDim(hp) ==
    hp.user_dim + hp.item_dim + AdditionalDim(hp.dnn_additional_embeddings_sizes)

\* mutant: the continuous features are left out of the first layer's width
DeepInputWidthNoCont(hp) == TotalEmbDim(hp)

\* prev_output before the loop over dnn_hidden_units
DeepInputWidth(hp) == hp.dnn_cont_features + TotalEmbDim(hp)

\* nn.Linear(in, out) with its weight and bias
LinearLayer(seed, l, inw, outw) ==
    [kind |-> "Linear", in_features |-> inw, out_features |-> outw,
     weight |-> Matrix(seed + l, outw, inw),
     bias |-> [j \in 1..outw |-> Entry(seed, l, j)]]

\* mutant: no Dropout after the last hidden Linear
BuildDeepNoLastDropout(hp, seed) ==
    LET hu == hp.dnn_hidden_units IN
    [k \in 1..(3 * Len(hu) - 1) |->
        LET l == IF k = 3 * Len(hu) - 1 THEN Len(hu) ELSE (k + 2) \div 3
            inw == IF l = 1 THEN DeepInputWidth(hp) ELSE hu[l - 1]
        IN  CASE k = 3 * Len(hu) - 1 -> [kind |-> "ReLU"]
              [] k % 3 = 1 -> LinearLayer(seed, l, inw, hu[l])
              [] k % 3 = 2 -> [kind |-> "Dropout", p |-> hp.dnn_dropout]
              [] OTHER -> [kind |-> "ReLU"]]

\* the layers list: Linear, Dropout, ReLU appended for each hidden unit count
BuildDeep(hp, seed) ==
    LET hu == hp.dnn_hidden_units IN
    [k \in 1..(3 * Len(hu)) |->
        LET l == (k + 2) \div 3
            inw == IF l = 1 THEN DeepInputWidth(hp) ELSE hu[l - 1]
        IN  CASE k % 3 = 1 -> LinearLayer(seed, l, inw, hu[l])
              [] k % 3 = 2 -> [kind |-> "Dropout", p |-> hp.dnn_dropout]
              [] OTHER -> [kind |-> "ReLU"]]

\* prev_output after the loop
DeepOutputWidth(hp) ==
    IF hp.dnn_hidden_units = <<>> THEN DeepInputWidth(hp)
    ELSE hp.dnn_hidden_units[Len(hp.dnn_hidden_units)]

HeadInputWidth(hp) == hp.crossed_feat_dim + DeepOutputWidth(hp)

\* self.head = Sequential(Linear(exclusive_wide_input + prev_output, 1), Sigmoid())
BuildHead(hp, seed) ==
    <<LinearLayer(seed, 0, HeadInputWidth(hp), 1), [kind |-> "Sigmoid"]>>

\* the parameter tensors of a model built for (num_users, num_items, hp)
BuildParams(nu, ni, hp, seed) ==
    [users_emb |-> Matrix(seed, nu, hp.user_dim),
     items_emb |-> Matrix(seed + 1, ni, hp.item_dim),
     additional_embs |->
        [k \in 1..Len(hp.dnn_additional_embeddings_sizes) |->
            LET e == hp.dnn_additional_embeddings_sizes[k] IN
            [name |-> e.name, weight |-> Matrix(seed + k, e.num, e.dim)]],
     deep |-> BuildDeep(hp, seed),
     head |-> BuildHead(hp, seed)]

\* ------------------------------------------------------------- framework layers
\* nn.Embedding.__call__: a row of the table per index
Embedding(weight, idx) ==
    IF \A r \in 1..Len(idx) : idx[r] \in 0..(Len(weight) - 1)
    THEN Ok([r \in 1..Len(idx) |-> weight[idx[r] + 1]])
    ELSE Raise("IndexError")

\* nn.Linear.__call__: x @ weight.T + bias
Linear(layer, x) ==
    IF \E r \in 1..Len(x) : Len(x[r]) # layer.in_features
    THEN Raise("RuntimeError")
    ELSE Ok([r \in 1..Len(x) |->
                [j \in 1..layer.out_features |->
                    Dot(x[r], layer.weight[j]) + layer.bias[j]]])

\* the Bernoulli keep-mask a training-mode dropout layer draws: mask m gives
\* element (r, j) of the layer at position k the value 1 (kept) or 0 (zeroed)
MaskChoices == 0..3

DropMask(m, k, r, j) ==
    CASE m = 0 -> 1
      [] m = 1 -> 0
      [] m = 2 -> (k + r + j) % 2
      [] OTHER -> (k + r + j + 1) % 2

\* mutant: the mask is applied in eval mode too
DropoutAlways(layer, x, training, m, k) ==
    IF layer.p > 0
    THEN [r \in 1..Len(x) |->
            [j \in 1..Len(x[r]) |->
                IF layer.p = 100 THEN 0
                ELSE (x[r][j] * DropMask(m, k, r, j) * 100) \div (100 - layer.p)]]
    ELSE x

\* nn.Dropout.__call__: identity in eval mode; in training mode zeroes the
\* masked elements and scales the kept ones by 1/(1-p)
Dropout(layer, x, training, m, k) ==
    IF training /\ layer.p > 0
    THEN [r \in 1..Len(x) |->
            [j \in 1..Len(x[r]) |->
                IF layer.p = 100 THEN 0
                ELSE (x[r][j] * DropMask(m, k, r, j) * 100) \div (100 - layer.p)]]
    ELSE x

ReLU(x) ==
    [r \in 1..Len(x) |-> [j \in 1..Len(x[r]) |-> IF x[r][j] > 0 THEN x[r][j] ELSE 0]]

\* nn.Sigmoid on float32.  A score is coded by an integer that preserves
\* order and equality: ScoreZero is the float 0.0, ScoreOne is the float 1.0,
\* the codes between are the distinct floats strictly between 0 and 1.
\* 1/(1+exp(-x)) rounds to exactly 1.0 from x = 18 on (1 - sigmoid(x) is below
\* half an ulp of 1.0) and to exactly 0.0 up to x = -104 (sigmoid(x) is below
\* half the smallest subnormal).
SigmoidOneFrom == 18

SigmoidZeroUpTo == 0 - 104

ScoreZero == 0

ScoreOne == SigmoidOneFrom - SigmoidZeroUpTo

SigmoidScalar(x) ==
    IF x >= SigmoidOneFrom THEN ScoreOne
    ELSE IF x <= SigmoidZeroUpTo THEN ScoreZero
    ELSE x - SigmoidZeroUpTo

\* mutant: the head returns the logit
SigmoidMissing(x) == x

Sigmoid(x) ==
    [r \in 1..Len(x) |-> [j \in 1..Len(x[r]) |-> SigmoidScalar(x[r][j])]]

\* nn.Sequential.__call__ from position k on: each layer in order
RECURSIVE Sequential(_, _, _, _, _)
Sequential(layers, k, x, training, m) ==
    IF k > Len(layers) THEN Ok(x)
    ELSE LET layer == layers[k] IN
         CASE layer.kind = "Linear" ->
                LET y == Linear(layer, x) IN
                IF IsOk(y) THEN Sequential(layers, k + 1, y.val, training, m) ELSE y
           [] layer.kind = "Dropout" ->
                Sequential(layers, k + 1, Dropout(layer, x, training, m, k), training, m)
           [] layer.kind = "ReLU" ->
                Sequential(layers, k + 1, ReLU(x), training, m)
           [] OTHER ->
                Sequential(layers, k + 1, Sigmoid(x), training, m)

\* mutant: the 1 is placed one position early
OneHotShifted(idx, num_classes) ==
    IF num_classes <= 0 \/ \E r \in 1..Len(idx) : idx[r] \notin 0..(num_classes - 1)
    THEN Raise("RuntimeError")
    ELSE Ok([r \in 1..Len(idx) |->
                [j \in 1..num_classes |-> IF j = idx[r] THEN 1 ELSE 0]])

\* nn.functional.one_hot(idx, num_classes)
OneHot(idx, num_classes) ==
    IF num_classes <= 0 \/ \E r \in 1..Len(idx) : idx[r] \notin 0..(num_classes - 1)
    THEN Raise("RuntimeError")
    ELSE Ok([r \in 1..Len(idx) |->
                [j \in 1..num_classes |-> IF j = idx[r] + 1 THEN 1 ELSE 0]])

\* torch.cat(parts, dim=1): the parts must agree on the number of rows
RECURSIVE CatAll(_)
CatAll(parts) ==
    IF Len(parts) = 1 THEN Ok(parts[1])
    ELSE LET rest == CatAll(Tail(parts)) IN
         IF ~IsOk(rest) THEN rest
         ELSE IF Len(parts[1]) # Len(rest.val) THEN Raise("RuntimeError")
         ELSE Ok(Cat2(parts[1], rest.val))

\* ------------------------------------------------------------- forward
\* a forward call's arguments: interactions is a sequence of <<user, item>>
\* rows, additional_embeddings a function from feature names to index
\* sequences, continuous_features [given |-> FALSE] for None
NoTensor == [given |-> FALSE, val |-> <<>>]

Tensor(v) == [given |-> TRUE, val |-> v]

EmptyDict == [n \in {} |-> <<>>]

Users(call) == [r \in 1..Len(call.interactions) |-> call.interactions[r][1]]

Items(call) == [r \in 1..Len(call.interactions) |-> call.interactions[r][2]]

\* mutant: a feature absent from the mapping is skipped (dict.get style)
RECURSIVE AdditionalLookupsSkip(_, _, _)
AdditionalLookupsSkip(embs, k, given) ==
    IF k > Len(embs) THEN Ok(<<>>)
    ELSE IF embs[k].name \notin DOMAIN given THEN AdditionalLookupsSkip(embs, k + 1, given)
    ELSE LET e == Embedding(embs[k].weight, given[embs[k].name]) IN
         IF ~IsOk(e) THEN e
         ELSE LET rest == AdditionalLookupsSkip(embs, k + 1, given) IN
              IF IsOk(rest) THEN Ok(<<e.val>> \o rest.val) ELSE rest

\* [emb(additional_embeddings[k]) for k, emb in self.additional_embs.items()]
RECURSIVE AdditionalLookups(_, _, _)
AdditionalLookups(embs, k, given) ==
    IF k > Len(embs) THEN Ok(<<>>)
    ELSE IF embs[k].name \notin DOMAIN given THEN Raise("KeyError")
    ELSE LET e == Embedding(embs[k].weight, given[embs[k].name]) IN
         IF ~IsOk(e) THEN e
         ELSE LET rest == AdditionalLookups(embs, k + 1, given) IN
              IF IsOk(rest) THEN Ok(<<e.val>> \o rest.val) ELSE rest

\* all_embed
AllEmbed(ps, call) ==
    LET u == Embedding(ps.users_emb, Users(call)) IN
    IF ~IsOk(u) THEN u
    ELSE LET i == Embedding(ps.items_emb, Items(call)) IN
    IF ~IsOk(i) THEN i
    ELSE LET a == AdditionalLookups(ps.additional_embs, 1, call.additional_embeddings) IN
    IF ~IsOk(a) THEN a
    ELSE CatAll(<<u.val, i.val>> \o a.val)

\* mutant: the flattened pair index is not reduced modulo the bucket count
CrossProductIdxNoMod(user, item, n_items, crossed_feat_dim) ==
    user * n_items + item

\* cross_product_idx
CrossProductIdx(user, item, n_items, crossed_feat_dim) ==
    (user * n_items + item) % crossed_feat_dim

\* cross_product: the remainder by 0 raises
CrossProduct(hp, n_items, call) ==
    IF hp.crossed_feat_dim = 0 THEN Raise("RuntimeError")
    ELSE OneHot([r \in 1..Len(call.interactions) |->
                    CrossProductIdx(Users(call)[r], Items(call)[r], n_items,
                                    hp.crossed_feat_dim)],
                hp.crossed_feat_dim)

\* mutant: the test is dnn_cont_features >= 0
DeepInputAlways(hp, all_embed, call) ==
    IF hp.dnn_cont_features >= 0
    THEN IF ~call.continuous_features.given THEN Raise("TypeError")
         ELSE CatAll(<<call.continuous_features.val, all_embed>>)
    ELSE Ok(all_embed)

\* deep_input
DeepInput(hp, all_embed, call) ==
    IF hp.dnn_cont_features > 0
    THEN IF ~call.continuous_features.given THEN Raise("TypeError")
         ELSE CatAll(<<call.continuous_features.val, all_embed>>)
    ELSE Ok(all_embed)

\* WideAndDeepModel.forward under dropout mask m
Forward(hp, n_items, ps, training, call, m) ==
    LET all_embed == AllEmbed(ps, call) IN
    IF ~IsOk(all_embed) THEN all_embed
    ELSE LET cross_product == CrossProduct(hp, n_items, call) IN
    IF ~IsOk(cross_product) THEN cross_product
    ELSE LET deep_input == DeepInput(hp, all_embed.val, call) IN
    IF ~IsOk(deep_input) THEN deep_input
    ELSE LET deep_out == Sequential(ps.deep, 1, deep_input.val, training, m) IN
    IF ~IsOk(deep_out) THEN deep_out
    ELSE LET head_in == CatAll(<<cross_product.val, deep_out.val>>) IN
    IF ~IsOk(head_in) THEN head_in
    ELSE Sequential(ps.head, 1, head_in.val, training, m)

\* ------------------------------------------------------------- state
VARIABLES
    hparams,      \* WideAndDeepModel.hparams
    n_users,      \* WideAndDeepModel.n_users
    n_items,      \* WideAndDeepModel.n_items
    params,       \* the parameter tensors: users_emb, items_emb, additional_embs, deep, head
    training,     \* nn.Module.training of the model
    call,         \* arguments of the forward call last prepared or made
    ret,          \* result of the last forward call (scores or the exception)
    dataloader,   \* WideAndDeep.dataloader: the sequence of (X, y) batches it yields
    pc,           \* position of the driver
    entry,        \* the driver method the caller invoked last
    batch,        \* index of the batch the running loop is at
    loss,         \* loss of train_loop
    grads,        \* "set" after backward, "zero" after zero_grad
    test_loss,    \* test_loss of test_loop
    correct,      \* correct of test_loop
    outcome,      \* how the last driver call ended: "ok" or the exception
    trace         \* the operations the running driver call has performed

modelVars == <<hparams, n_users, n_items, params, training>>

driverVars == <<dataloader, pc, entry, batch, loss, grads, test_loss, correct, outcome, trace>>

vars == <<hparams, n_users, n_items, params, training, call, ret,
          dataloader, pc, entry, batch, loss, grads, test_loss, correct, outcome, trace>>

Seeds == 0..(NumSeeds - 1)

NoCall == [interactions |-> <<>>, additional_embeddings |-> EmptyDict,
           continuous_features |-> NoTensor]

NoRet == Raise("not called")

\* WideAndDeepModel.__init__: a fresh module is in training mode
InitModel ==
    /\ \E s \in ShapeChoices, hp \in HParamChoices, seed \in Seeds :
        /\ hp.crossed_feat_dim = s[3]
        /\ n_users = s[1]
        /\ n_items = s[2]
        /\ hparams = hp
        /\ params = BuildParams(s[1], s[2], hp, seed)
    /\ training = TRUE
    /\ call = NoCall
    /\ ret = NoRet

\* ------------------------------------------------------------- driver
\* the batches DataLoader(...) yields: interactions of the data set (in range
\* by construction of num_users and num_items) with class-index labels
LoaderBatch(last_label) ==
    [X |-> <<<<0, 0>>, <<n_users - 1, n_items - 1>>>>, y |-> <<0, last_label>>]

DataLoaders ==
    {[b \in 1..n |-> LoaderBatch(0)] : n \in 0..MaxBatches}
    \cup {[b \in 1..MaxBatches |-> LoaderBatch(IF b = MaxBatches THEN 1 ELSE 0)]}

\* self.model(X): forward with the default additional_embeddings and continuous_features
ModelCall(X) ==
    [interactions |-> X, additional_embeddings |-> EmptyDict,
     continuous_features |-> NoTensor]

\* nn.CrossEntropyLoss()(pred, y) with class-index targets: a target outside
\* the columns of pred raises; over a single column log_softmax is 0, so is the loss
CrossEntropyLoss(pred, y) ==
    IF \E r \in 1..Len(y) : y[r] \notin 0..(Len(pred[r]) - 1)
    THEN Raise("IndexError")
    ELSE Ok(0)

\* (pred.argmax(1) == y).sum(): argmax over a single column is 0
CorrectCount(pred, y) == Cardinality({r \in 1..Len(y) : y[r] = 0})

InitDriver ==
    /\ dataloader \in DataLoaders
    /\ pc = "idle"
    /\ entry = "none"
    /\ batch = 0
    /\ loss = 0
    /\ grads = "zero"
    /\ test_loss = 0
    /\ correct = 0
    /\ outcome = "none"
    /\ trace = <<>>

Init == InitModel /\ InitDriver

\* an exception propagates out of the driver call
RaiseOut(e) ==
    /\ pc' = "idle"
    /\ outcome' = e

\* mutant: fit starts the evaluation after the first batch
AfterTrainBatchEarly(b) ==
    IF b <= Len(dataloader) /\ (entry # "fit" \/ b <= 1) THEN "train_forward"
    ELSE IF entry = "fit" THEN "test_loop" ELSE "return"

\* the position after the training loop's body: next batch, or train_loop returns
AfterTrainBatch(b) ==
    IF b <= Len(dataloader) THEN "train_forward"
    ELSE IF entry = "fit" THEN "test_loop" ELSE "return"

CallFit ==
    /\ pc = "idle"
    /\ pc' = "train_loop"
    /\ entry' = "fit"
    /\ outcome' = "running"
    /\ trace' = <<>>
    /\ UNCHANGED <<modelVars, call, ret, dataloader, batch, loss, grads, test_loss, correct>>

CallTrainLoop ==
    /\ pc = "idle"
    /\ pc' = "train_loop"
    /\ entry' = "train_loop"
    /\ outcome' = "running"
    /\ trace' = <<>>
    /\ UNCHANGED <<modelVars, call, ret, dataloader, batch, loss, grads, test_loss, correct>>

CallTestLoop ==
    /\ pc = "idle"
    /\ pc' = "test_loop"
    /\ entry' = "test_loop"
    /\ outcome' = "running"
    /\ trace' = <<>>
    /\ UNCHANGED <<modelVars, call, ret, dataloader, batch, loss, grads, test_loss, correct>>

\* self.model.train(); the loop starts at the first batch
TrainEnter ==
    /\ pc = "train_loop"
    /\ training' = TRUE
    /\ batch' = 1
    /\ pc' = AfterTrainBatch(1)
    /\ trace' = Append(trace, <<"train", 0>>)
    /\ UNCHANGED <<hparams, n_users, n_items, params, call, ret, dataloader, entry,
                   loss, grads, test_loss, correct, outcome>>

\* pred = self.model(X)
TrainForward ==
    /\ pc = "train_forward"
    /\ \E m \in MaskChoices :
        LET c == ModelCall(dataloader[batch].X)
            r == Forward(hparams, n_items, params, training, c, m)
        IN  /\ call' = c
            /\ ret' = r
            /\ IF IsOk(r) THEN pc' = "train_loss" /\ outcome' = outcome
               ELSE RaiseOut(r.err)
    /\ trace' = Append(trace, <<"forward", batch>>)
    /\ UNCHANGED <<modelVars, dataloader, entry, batch, loss, grads, test_loss, correct>>

\* loss = self.loss_fn(pred, y)
TrainLoss ==
    /\ pc = "train_loss"
    /\ LET l == CrossEntropyLoss(ret.val, dataloader[batch].y) IN
        IF IsOk(l) THEN loss' = l.val /\ pc' = "train_backward" /\ outcome' = outcome
        ELSE loss' = loss /\ RaiseOut(l.err)
    /\ trace' = Append(trace, <<"loss", batch>>)
    /\ UNCHANGED <<modelVars, call, ret, dataloader, entry, batch, grads, test_loss, correct>>

\* loss.backward()
TrainBackward ==
    /\ pc = "train_backward"
    /\ grads' = "set"
    /\ pc' = "train_step"
    /\ trace' = Append(trace, <<"backward", batch>>)
    /\ UNCHANGED <<modelVars, call, ret, dataloader, entry, batch, loss, test_loss,
                   correct, outcome>>

\* self.optimizer.step(): the optimizer rewrites the parameter tensors in place
OptimizerStep ==
    \E seed \in Seeds : params' = BuildParams(n_users, n_items, hparams, seed)

TrainStep ==
    /\ pc = "train_step"
    /\ OptimizerStep
    /\ pc' = "train_zero_grad"
    /\ trace' = Append(trace, <<"step", batch>>)
    /\ UNCHANGED <<hparams, n_users, n_items, training, call, ret, dataloader, entry,
                   batch, loss, grads, test_loss, correct, outcome>>

\* self.optimizer.zero_grad(); then the next batch
TrainZeroGrad ==
    /\ pc = "train_zero_grad"
    /\ grads' = "zero"
    /\ batch' = batch + 1
    /\ pc' = AfterTrainBatch(batch + 1)
    /\ trace' = Append(trace, <<"zero_grad", batch>>)
    /\ UNCHANGED <<modelVars, call, ret, dataloader, entry, loss, test_loss, correct, outcome>>

\* train_loop called on its own returns
TrainReturn ==
    /\ pc = "return"
    /\ pc' = "idle"
    /\ outcome' = "ok"
    /\ UNCHANGED <<modelVars, call, ret, dataloader, entry, batch, loss, grads,
                   test_loss, correct, trace>>

\* self.model.eval(); test_loss, correct = 0, 0; the loop starts at the first batch
TestEnter ==
    /\ pc = "test_loop"
    /\ training' = FALSE
    /\ test_loss' = 0
    /\ correct' = 0
    /\ batch' = 1
    /\ pc' = IF 1 <= Len(dataloader) THEN "test_forward" ELSE "test_end"
    /\ trace' = Append(trace, <<"eval", 0>>)
    /\ UNCHANGED <<hparams, n_users, n_items, params, call, ret, dataloader, entry,
                   loss, grads, outcome>>

\* pred = self.model(X) under torch.no_grad()
TestForward ==
    /\ pc = "test_forward"
    /\ \E m \in MaskChoices :
        LET c == ModelCall(dataloader[batch].X)
            r == Forward(hparams, n_items, params, training, c, m)
        IN  /\ call' = c
            /\ ret' = r
            /\ IF IsOk(r) THEN pc' = "test_accumulate" /\ outcome' = outcome
               ELSE RaiseOut(r.err)
    /\ trace' = Append(trace, <<"test_forward", batch>>)
    /\ UNCHANGED <<modelVars, dataloader, entry, batch, loss, grads, test_loss, correct>>

\* mutant: the evaluation loop carries the training loop's optimizer step
TestAccumulateWithStep ==
    /\ pc = "test_accumulate"
    /\ LET l == CrossEntropyLoss(ret.val, dataloader[batch].y) IN
        IF IsOk(l)
        THEN /\ test_loss' = test_loss + l.val
             /\ correct' = correct + CorrectCount(ret.val, dataloader[batch].y)
             /\ batch' = batch + 1
             /\ pc' = IF batch + 1 <= Len(dataloader) THEN "test_forward" ELSE "test_end"
             /\ outcome' = outcome
        ELSE /\ UNCHANGED <<test_loss, correct, batch>>
             /\ RaiseOut(l.err)
    /\ OptimizerStep
    /\ trace' = Append(trace, <<"test_loss", batch>>)
    /\ UNCHANGED <<hparams, n_users, n_items, training, call, ret, dataloader, entry,
                   loss, grads>>

\* test_loss += loss_fn(pred, y).item(); correct += ...; then the next batch
TestAccumulate ==
    /\ pc = "test_accumulate"
    /\ LET l == CrossEntropyLoss(ret.val, dataloader[batch].y) IN
        IF IsOk(l)
        THEN /\ test_loss' = test_loss + l.val
             /\ correct' = correct + CorrectCount(ret.val, dataloader[batch].y)
             /\ batch' = batch + 1
             /\ pc' = IF batch + 1 <= Len(dataloader) THEN "test_forward" ELSE "test_end"
             /\ outcome' = outcome
        ELSE /\ UNCHANGED <<test_loss, correct, batch>>
             /\ RaiseOut(l.err)
    /\ trace' = Append(trace, <<"test_loss", batch>>)
    /\ UNCHANGED <<modelVars, call, ret, dataloader, entry, loss, grads>>

\* len(self.dataloader.dataset)
DatasetSize == SumSeq([b \in 1..Len(dataloader) |-> Len(dataloader[b].X)])

\* test_loss /= num_batches; correct /= size (correct kept as a percentage)
TestEnd ==
    /\ pc = "test_end"
    /\ IF Len(dataloader) = 0
       THEN UNCHANGED <<test_loss, correct>> /\ RaiseOut("ZeroDivisionError")
       ELSE /\ test_loss' = test_loss \div Len(dataloader)
            /\ correct' = (correct * 100) \div DatasetSize
            /\ pc' = "idle"
            /\ outcome' = "ok"
    /\ UNCHANGED <<modelVars, call, ret, dataloader, entry, batch, loss, grads, trace>>

\* the caller scores the first batch of its data with the trained model,
\* supplying every input the hyperparameters declare
ScoringCall ==
    [interactions |-> LoaderBatch(0).X,
     additional_embeddings |->
        [n \in {hparams.dnn_additional_embeddings_sizes[k].name :
                    k \in 1..Len(hparams.dnn_additional_embeddings_sizes)} |-> <<0, 0>>],
     continuous_features |->
        IF hparams.dnn_cont_features > 0
        THEN Tensor([r \in 1..2 |-> [j \in 1..hparams.dnn_cont_features |-> 1]])
        ELSE NoTensor]

Score ==
    /\ pc = "idle"
    /\ \E m \in MaskChoices :
        /\ call' = ScoringCall
        /\ ret' = Forward(hparams, n_items, params, training, ScoringCall, m)
    /\ UNCHANGED <<modelVars, driverVars>>

Next ==
    \/ CallFit
    \/ CallTrainLoop
    \/ CallTestLoop
    \/ TrainEnter
    \/ TrainForward
    \/ TrainLoss
    \/ TrainBackward
    \/ TrainStep
    \/ TrainZeroGrad
    \/ TrainReturn
    \/ TestEnter
    \/ TestForward
    \/ TestAccumulate
    \/ TestEnd
    \/ Score

Spec == Init /\ [][Next]_vars

\* ------------------------------------------------------------- direct use of the model
\* The rows a caller draws its batch from: the first and the last user and
\* item, then a user and an item one past the vocabulary.
RowSeq == <<<<0, 0>>, <<n_users - 1, n_items - 1>>, <<n_users, 0>>, <<0, n_items>>>>

Interactions(n, start) ==
    [r \in 1..n |-> RowSeq[((start + r - 2) % Len(RowSeq)) + 1]]

\* additional_embeddings mappings for a batch of n rows: every index is the
\* last row of the feature's table, or one past it
IndexSeq(n, v) == [r \in 1..n |-> v]

DictChoices(n) ==
    { EmptyDict,
      [k \in {"genre"} |-> IndexSeq(n, Genre.num - 1)],
      [k \in {"year"} |-> IndexSeq(n, Year.num - 1)],
      [k \in {"genre", "year"} |->
            IF k = "genre" THEN IndexSeq(n, Genre.num - 1) ELSE IndexSeq(n, Year.num - 1)],
      [k \in {"genre"} |-> IndexSeq(n, Genre.num)] }

\* continuous_features for a batch of n rows: None, a matrix of width w
ContValue(r, j) == IF (r + j) % 2 = 0 THEN 200 ELSE 1

ContTensor(n, w) == Tensor([r \in 1..n |-> [j \in 1..w |-> ContValue(r, j)]])

ContinuousChoices(n) == {NoTensor, ContTensor(n, 1), ContTensor(n, 2)}

\* the caller builds the arguments of its next forward call
Prepare ==
    /\ call = NoCall
    /\ \E n \in 1..MaxBatch, start \in 1..Len(RowSeq) :
        \E d \in DictChoices(n), c \in ContinuousChoices(n) :
            call' = [interactions |-> Interactions(n, start),
                     additional_embeddings |-> d, continuous_features |-> c]
    /\ ret' = NoRet
    /\ UNCHANGED <<modelVars, driverVars>>

\* model(interactions, additional_embeddings, continuous_features)
CallForward ==
    /\ call # NoCall
    /\ ret = NoRet
    /\ \E m \in MaskChoices :
        ret' = Forward(hparams, n_items, params, training, call, m)
    /\ UNCHANGED <<modelVars, call, driverVars>>

\* the caller consumes the scores (or handles the exception): the output's
\* lifetime ends
Consume ==
    /\ ret # NoRet
    /\ call' = NoCall
    /\ ret' = NoRet
    /\ UNCHANGED <<modelVars, driverVars>>

\* model.train(), between two forward calls
ModelTrain ==
    /\ ret = NoRet
    /\ training' = TRUE
    /\ UNCHANGED <<hparams, n_users, n_items, params, call, ret, driverVars>>

\* model.eval(), between two forward calls
ModelEval ==
    /\ ret = NoRet
    /\ training' = FALSE
    /\ UNCHANGED <<hparams, n_users, n_items, params, call, ret, driverVars>>

InitDirect ==
    /\ InitModel
    /\ dataloader = <<>>
    /\ pc = "idle"
    /\ entry = "none"
    /\ batch = 0
    /\ loss = 0
    /\ grads = "zero"
    /\ test_loss = 0
    /\ correct = 0
    /\ outcome = "none"
    /\ trace = <<>>

NextDirect ==
    \/ Prepare
    \/ CallForward
    \/ Consume
    \/ ModelTrain
    \/ ModelEval

SpecDirect == InitDirect /\ [][NextDirect]_vars

\* ------------------------------------------------------------- the wide branch alone
\* every vocabulary size and bucket count up to the bounds, every in-range
\* (user, item) row; the step computes cross_product for that row
WideHParams(d) ==
    [user_dim |-> 2, item_dim |-> 1, crossed_feat_dim |-> d,
     dnn_hidden_units |-> <<>>, dnn_dropout |-> 0,
     dnn_additional_embeddings_sizes |-> <<>>, dnn_cont_features |-> 0]

InitWide ==
    /\ \E nu \in 1..MaxUsers, ni \in 1..MaxItems, d \in 1..MaxCross :
        /\ n_users = nu
        /\ n_items = ni
        /\ hparams = WideHParams(d)
        /\ params = BuildParams(nu, ni, WideHParams(d), 0)
        /\ \E u \in 0..(nu - 1), i \in 0..(ni - 1) : call = ModelCall(<<<<u, i>>>>)
    /\ training = TRUE
    /\ ret = NoRet
    /\ dataloader = <<>>
    /\ pc = "idle"
    /\ entry = "none"
    /\ batch = 0
    /\ loss = 0
    /\ grads = "zero"
    /\ test_loss = 0
    /\ correct = 0
    /\ outcome = "none"
    /\ trace = <<>>

WideStep ==
    /\ ret = NoRet
    /\ ret' = CrossProduct(hparams, n_items, call)
    /\ UNCHANGED <<modelVars, call, driverVars>>

NextWide == WideStep

SpecWide == InitWide /\ [][NextWide]_vars

\* ------------------------------------------------------------- claims
\* the single row of a wide-branch check
RowUser == call.interactions[1][1]

RowItem == call.interactions[1][2]

\* the remainder of a by d, by its defining property
IsRemainder(p, a, d) == p \in 0..(d - 1) /\ \E q \in 0..a : a = q * d + p

\* C2: for every user index in [0, num_users) and item index in [0, num_items),
\* the extremes included, and every crossed_feat_dim > 0, the cross-feature
\* bucket index lies in [0, crossed_feat_dim), and one_hot accepts it.
C2_BucketIndexInRange ==
    ret # NoRet =>
        /\ CrossProductIdx(RowUser, RowItem, n_items, hparams.crossed_feat_dim)
                \in 0..(hparams.crossed_feat_dim - 1)
        /\ IsOk(ret)

\* the last user's row, whose flattened index exceeds the bucket count
C2_Witness ==
    /\ ret # NoRet
    /\ IsOk(ret)
    /\ RowUser = n_users - 1
    /\ n_users = MaxUsers
    /\ RowUser * n_items + RowItem >= 2 * hparams.crossed_feat_dim

\* C3: the wide branch gives each row a crossed_feat_dim-wide vector with
\* exactly one 1, at position (user * num_items + item) mod crossed_feat_dim,
\* and 0 elsewhere; num_users=10, num_items=5, crossed_feat_dim=7, (3, 4)
\* gives the single 1 at position 5.
C3_OneHotAtRemainder ==
    ret # NoRet =>
        /\ IsOk(ret)
        /\ Len(ret.val) = 1
        /\ Len(ret.val[1]) = hparams.crossed_feat_dim
        /\ \A j \in 1..hparams.crossed_feat_dim :
            /\ ret.val[1][j] \in {0, 1}
            /\ ret.val[1][j] = 1 <=>
                IsRemainder(j - 1, RowUser * n_items + RowItem, hparams.crossed_feat_dim)
        /\ Cardinality({j \in 1..hparams.crossed_feat_dim : ret.val[1][j] = 1}) = 1
        /\ (n_users = 10 /\ n_items = 5 /\ hparams.crossed_feat_dim = 7
                /\ RowUser = 3 /\ RowItem = 4)
            => ret.val[1] = <<0, 0, 0, 0, 0, 1, 0>>

\* the scenario's row has been encoded
C3_Witness ==
    /\ n_users = 10
    /\ n_items = 5
    /\ hparams.crossed_feat_dim = 7
    /\ RowUser = 3
    /\ RowItem = 4
    /\ IsOk(ret)
    /\ ret.val[1][6] = 1

\* ------------------------------------------------------------- validity of a call
Declared == hparams.dnn_additional_embeddings_sizes

DeclaredNames == {Declared[k].name : k \in 1..Len(Declared)}

BatchSize == Len(call.interactions)

InteractionsValid ==
    \A r \in 1..BatchSize :
        /\ Users(call)[r] \in 0..(n_users - 1)
        /\ Items(call)[r] \in 0..(n_items - 1)

\* declared feature k is supplied, one in-range index per row
FeatureValid(k) ==
    /\ Declared[k].name \in DOMAIN call.additional_embeddings
    /\ Len(call.additional_embeddings[Declared[k].name]) = BatchSize
    /\ \A r \in 1..BatchSize :
        call.additional_embeddings[Declared[k].name][r] \in 0..(Declared[k].num - 1)

AdditionalValid == \A k \in 1..Len(Declared) : FeatureValid(k)

\* continuous features of shape (batch, dnn_cont_features) when that is > 0
ContinuousValid ==
    hparams.dnn_cont_features > 0 =>
        /\ call.continuous_features.given
        /\ Len(call.continuous_features.val) = BatchSize
        /\ \A r \in 1..BatchSize :
            Len(call.continuous_features.val[r]) = hparams.dnn_cont_features

ValidBatch == BatchSize > 0 /\ InteractionsValid /\ AdditionalValid /\ ContinuousValid

Called == ret # NoRet

\* the result has shape (batch_size, 1)
ShapeIsBatchByOne ==
    /\ Len(ret.val) = BatchSize
    /\ \A r \in 1..BatchSize : Len(ret.val[r]) = 1

HParamsValid == hparams.crossed_feat_dim > 0

\* the inputs other than continuous_features are valid
OtherwiseValid == HParamsValid /\ BatchSize > 0 /\ InteractionsValid /\ AdditionalValid

WithoutContinuous == [call EXCEPT !.continuous_features = NoTensor]

\* C5: with otherwise valid inputs, forward without continuous_features
\* succeeds when dnn_cont_features = 0 and raises when dnn_cont_features > 0;
\* with dnn_cont_features = 0 a supplied continuous_features is ignored (the
\* output is an output of the same call without it) or the call raises a
\* shape error.
C5_ContinuousRequiredIff ==
    (Called /\ OtherwiseValid) =>
        /\ (~call.continuous_features.given /\ hparams.dnn_cont_features = 0)
                => IsOk(ret)
        /\ (~call.continuous_features.given /\ hparams.dnn_cont_features > 0)
                => ~IsOk(ret)
        /\ (call.continuous_features.given /\ hparams.dnn_cont_features = 0)
                => \/ ret.err = "RuntimeError"
                   \/ /\ IsOk(ret)
                      /\ \E m \in MaskChoices :
                            ret = Forward(hparams, n_items, params, training,
                                          WithoutContinuous, m)

\* a model without continuous features was given some and scored the batch
C5_Witness ==
    /\ Called
    /\ OtherwiseValid
    /\ call.continuous_features.given
    /\ hparams.dnn_cont_features = 0
    /\ hparams.dnn_hidden_units # <<>>
    /\ IsOk(ret)

\* the tensors forward builds for the current call
AllEmbedOfCall == AllEmbed(params, call)

DeepInputOfCall == DeepInput(hparams, AllEmbedOfCall.val, call)

DeepOutOfCall == Sequential(params.deep, 1, DeepInputOfCall.val, training, 0)

\* the width of the tensor each Linear of self.deep is fed: the deep input
\* for the first, the previous Linear's output for the others
FedWidth(k) ==
    IF k = 1 THEN Len(DeepInputOfCall.val[1]) ELSE params.deep[k - 3].out_features

\* C7: with dnn_hidden_units empty the model is constructed, forward on a
\* valid batch returns scores, the deep branch returns its input unchanged,
\* and the head's Linear has input width crossed_feat_dim + dnn_cont_features
\* + user_dim + item_dim + the additional embedding widths, the width of the
\* concatenated vector; for every hyperparameter record each Linear's input
\* width equals the width of the tensor forward feeds it.
C7_LayerWidthsMatch ==
    (Called /\ ValidBatch) =>
        /\ IsOk(AllEmbedOfCall) /\ IsOk(DeepInputOfCall) /\ IsOk(DeepOutOfCall)
        /\ \A k \in 1..Len(params.deep) :
            params.deep[k].kind = "Linear" => params.deep[k].in_features = FedWidth(k)
        /\ params.head[1].in_features
                = hparams.crossed_feat_dim + Len(DeepOutOfCall.val[1])
        /\ HParamsValid => IsOk(ret) /\ ShapeIsBatchByOne
        /\ hparams.dnn_hidden_units = <<>> =>
            /\ params.deep = <<>>
            /\ DeepOutOfCall.val = DeepInputOfCall.val
            /\ params.head[1].in_features
                    = hparams.crossed_feat_dim + hparams.dnn_cont_features
                      + hparams.user_dim + hparams.item_dim + AdditionalDim(Declared)

\* a model without hidden layers, with continuous and additional features,
\* scored a valid batch
C7_Witness ==
    /\ Called
    /\ ValidBatch
    /\ hparams.dnn_hidden_units = <<>>
    /\ hparams.dnn_cont_features > 0
    /\ Declared # <<>>
    /\ IsOk(ret)
    /\ ShapeIsBatchByOne

\* the Linear layers of self.deep, by position
LinearPositions == {k \in 1..Len(params.deep) : params.deep[k].kind = "Linear"}

FollowedByDropout(k) ==
    /\ k + 1 <= Len(params.deep)
    /\ params.deep[k + 1].kind = "Dropout"
    /\ params.deep[k + 1].p = hparams.dnn_dropout

\* C8 as stated: a dropout layer follows every hidden Linear except the
\* last one, which is not followed by dropout.
C8_Original ==
    \A k \in LinearPositions :
        FollowedByDropout(k) <=> (\E j \in LinearPositions : j > k)

\* C8: self.deep holds one Linear per entry of dnn_hidden_units and a Dropout
\* with probability dnn_dropout follows every one of them, the last included;
\* a ReLU follows each Dropout.
C8_DropoutAfterEveryHidden ==
    /\ Cardinality(LinearPositions) = Len(hparams.dnn_hidden_units)
    /\ Len(params.deep) = 3 * Len(hparams.dnn_hidden_units)
    /\ \A k \in LinearPositions :
        /\ FollowedByDropout(k)
        /\ params.deep[k + 2].kind = "ReLU"

\* a single hidden layer in training mode: the output differs from the one
\* computed with every element kept, so dropout acts after the last Linear
C8_Witness ==
    /\ Called
    /\ ValidBatch
    /\ Len(hparams.dnn_hidden_units) = 1
    /\ hparams.dnn_dropout > 0
    /\ training
    /\ IsOk(ret)
    /\ ret # Forward(hparams, n_items, params, training, call, 0)

\* every score of the result
Scores == {ret.val[r][j] : r \in 1..Len(ret.val), j \in {1}}

\* C1 as stated: for every valid batch and every hyperparameter record,
\* forward returns a (batch_size, 1) tensor with every value in the open
\* interval (0, 1).
C1_Original ==
    (Called /\ ValidBatch) =>
        /\ IsOk(ret)
        /\ ShapeIsBatchByOne
        /\ \A v \in Scores : ScoreZero < v /\ v < ScoreOne

\* C1: for every valid batch and every hyperparameter record with
\* crossed_feat_dim > 0, forward returns a (batch_size, 1) tensor with every
\* value in the closed interval [0, 1].
C1_ShapeAndClosedRange ==
    (Called /\ ValidBatch /\ HParamsValid) =>
        /\ IsOk(ret)
        /\ ShapeIsBatchByOne
        /\ \A v \in Scores : ScoreZero <= v /\ v <= ScoreOne

\* a valid batch of two rows scored, one score exactly 1.0 and one inside (0, 1)
C1_Witness ==
    /\ Called
    /\ ValidBatch
    /\ HParamsValid
    /\ IsOk(ret)
    /\ BatchSize = 2
    /\ ScoreOne \in Scores
    /\ \E v \in Scores : ScoreZero < v /\ v < ScoreOne

\* forward's result for the current model, mode and call does not depend on
\* the dropout mask drawn
Outcomes == {Forward(hparams, n_items, params, training, call, m) : m \in MaskChoices}

Deterministic == Cardinality(Outcomes) = 1

\* C6 as stated: for fixed parameters and a fixed batch two forward calls
\* give identical output, for every hyperparameter record and in whatever
\* mode the model is in (fresh, after train_loop, after test_loop).
C6_Original == call # NoCall => Deterministic

\* C6: for fixed parameters and a fixed batch two forward calls give
\* identical output whenever the model is in evaluation mode (after
\* test_loop) or dnn_dropout = 0 or dnn_hidden_units is empty.
C6_DeterministicInEval ==
    (/\ call # NoCall
     /\ \/ ~training
        \/ hparams.dnn_dropout = 0
        \/ hparams.dnn_hidden_units = <<>>)
    => Deterministic

\* test_loop has returned on a model with hidden layers and dropout, whose
\* forward scored the batches
C6_Witness ==
    /\ entry = "test_loop"
    /\ outcome = "ok"
    /\ ~training
    /\ hparams.dnn_dropout > 0
    /\ hparams.dnn_hidden_units # <<>>
    /\ IsOk(ret)

\* the operations of one training pass over batches b..n, then of fit's
\* evaluation pass
RECURSIVE TrainOps(_, _)
TrainOps(b, n) ==
    IF b > n THEN <<>>
    ELSE <<<<"forward", b>>, <<"loss", b>>, <<"backward", b>>, <<"step", b>>,
           <<"zero_grad", b>>>> \o TrainOps(b + 1, n)

RECURSIVE TestOps(_, _)
TestOps(b, n) ==
    IF b > n THEN <<>>
    ELSE <<<<"test_forward", b>>, <<"test_loss", b>>>> \o TestOps(b + 1, n)

FitOps(n) == <<<<"train", 0>>>> \o TrainOps(1, n) \o <<<<"eval", 0>>>> \o TestOps(1, n)

IsPrefix(s, t) == Len(s) <= Len(t) /\ \A i \in 1..Len(s) : s[i] = t[i]

C10_OnlyOptimizerMutates ==
    [][/\ hparams' = hparams
       /\ n_users' = n_users
       /\ n_items' = n_items
       /\ params' # params => (pc = "train_step" /\ pc' = "train_zero_grad")]_vars

\* test_loop returned after scoring its batches on parameters an optimizer
\* step had changed
C10_Witness ==
    /\ entry = "test_loop"
    /\ outcome = "ok"
    /\ IsOk(ret)
    /\ \E seed \in Seeds \ {0} : params = BuildParams(n_users, n_items, hparams, seed)
====
